---- MODULE Spec2Model ----
(***************************************************************************)
(* Model of the reverse proxy's load-balancing core:                       *)
(*   balancer/p2c.go   the P2C (pick of two choices) balancer              *)
(*   proxy.go          Proxy.ServeHTTP (dispatch) and Proxy.healthCheck    *)
(*   middleware/panics_middleware.go   PanicsHandling                      *)
(*                                                                         *)
(* The specifications share the balancer state:                            *)
(*   SpecP2C      goroutines calling the balancer's five methods directly, *)
(*                with the RWMutex and the random source modelled step by  *)
(*                step;                                                    *)
(*   Spec         the proxy: concurrent ServeHTTP dispatches and one       *)
(*                health monitor per configured host;                      *)
(*   SpecMonitor  the health monitors alone, with their probe results and  *)
(*                balancer calls logged;                                   *)
(*   SpecSeq      one goroutine calling Add, Remove, Inc and Done;         *)
(*   SpecLocks    the health monitors with Proxy.mux and P2C.mux taken     *)
(*                and released step by step, next to one balancer caller;  *)
(*   SpecFair     Spec with weak fairness of every monitor.                *)
(***************************************************************************)
EXTENDS Integers, Sequences, FiniteSets, TLC

\* ---------------------------------------------------------------- bounds
NumHosts == 2        \* configured downstream hosts
NumClients == 2      \* goroutines calling the balancer directly (SpecP2C)
NumRequests == 2     \* concurrent ServeHTTP dispatches (Spec)
MaxLoad == 2         \* cap on a load counter (Inc is not taken beyond it)
MaxProbes == 5       \* probes logged over all monitors (SpecMonitor)
NumNames == 3        \* host names of the single caller (SpecSeq)

AllNames == <<"A", "B", "C", "D">>
Hosts == {AllNames[i] : i \in 1..NumHosts}
\* the names the callers of the balancer use
Names == Hosts
\* the names the single caller of SpecSeq uses
SeqNames == {AllNames[i] : i \in 1..NumNames}
Clients == 1..NumClients
Requests == 1..NumRequests

None == "none"
NoHostError == "no host"

\* ------------------------------------------------- strings as byte strings
\* A string is the sequence of its bytes.
Salt == <<37, 35, 33>>                               \* "%#!"
EmptyKey == << >>
KeyQ == <<63>>                                       \* "?"
KeyB == <<47, 98, 63>>                               \* "/b?"
Keys == {EmptyKey, KeyQ, KeyB}
Paths == {<<47, 97>>, <<47, 98>>, << >>}             \* "/a", "/b", ""
Queries == {<< >>}

\* fmt.Sprintf("%s?%s", r.URL.Path, r.URL.RawQuery)
Sprintf(path, query) == path \o <<63>> \o query

\* ------------------------------------------------------------ crc32 (IEEE)
\* A 32-bit word is a pair <<hi, lo>> of 16-bit halves.
RECURSIVE Xor(_, _)
Xor(a, b) ==
    IF a = 0 THEN b
    ELSE IF b = 0 THEN a
    ELSE ((a + b) % 2) + 2 * Xor(a \div 2, b \div 2)

Xor32(x, y) == <<Xor(x[1], y[1]), Xor(x[2], y[2])>>
Shr1(x) == <<x[1] \div 2, (x[2] \div 2) + 32768 * (x[1] % 2)>>
IEEE == <<60856, 33568>>                             \* 0xedb88320
AllOnes == <<65535, 65535>>

RECURSIVE crcBits(_, _)
crcBits(c, k) ==
    IF k = 0 THEN c
    ELSE crcBits(IF c[2] % 2 = 1 THEN Xor32(Shr1(c), IEEE) ELSE Shr1(c), k - 1)

\* simplePopulateTable: the 256-entry table of the IEEE polynomial
simpleTable == [i \in 0..255 |-> crcBits(<<0, i>>, 8)]
Shr8(x) == <<x[1] \div 256, (x[2] \div 256) + 256 * (x[1] % 256)>>

\* simpleUpdate: crc = tab[byte(crc)^v] ^ (crc >> 8) for every byte v
RECURSIVE crcUpdate(_, _)
crcUpdate(c, s) ==
    IF s = << >> THEN c
    ELSE crcUpdate(Xor32(simpleTable[Xor(c[2] % 256, s[1])], Shr8(c)), Tail(s))

ChecksumIEEE(s) == Xor32(crcUpdate(AllOnes, s), AllOnes)

\* uint32 x % uint32(n), for small n
Mod32(x, n) == (((x[1] % n) * (65536 % n)) + (x[2] % n)) % n


\* ------------------------------------------------------------ the P2C pool
\* A pool value P is [hosts, loadMap, heap]: hosts is the slice of *HostLoad,
\* loadMap the map from name to *HostLoad, heap the HostLoad objects by
\* address.
HostLoad(hostName) == [name |-> hostName, load |-> 0]

SeqRange(q) == {q[i] : i \in 1..Len(q)}
MapRange(m) == {m[k] : k \in DOMAIN m}
Restrict(f, S) == [x \in (DOMAIN f) \cap S |-> f[x]]

\* NewP2C before its loop over the initial hosts
EmptyPool == [hosts |-> << >>, loadMap |-> << >>, heap |-> << >>]

\* the address of a newly allocated HostLoad: the name and the first serial
\* number that is not in use for it
NewAddr(P, hostName) ==
    LET used == SeqRange(P.hosts) \cup MapRange(P.loadMap)
    IN  CHOOSE a \in {<<hostName, k>> : k \in 1..(Cardinality(used) + 1)} :
            a \notin used /\ \A j \in 1..(a[2] - 1) : <<hostName, j>> \in used

\* objects no longer referenced are collected
Collect(P) ==
    [P EXCEPT !.heap = Restrict(@, SeqRange(P.hosts) \cup MapRange(P.loadMap))]

\* Add, after its lookup found no entry
AddAppend(P, hostName) ==
    LET h == NewAddr(P, hostName)
    IN  [hosts   |-> Append(P.hosts, h),
         loadMap |-> P.loadMap @@ (hostName :> h),
         heap    |-> P.heap @@ (h :> HostLoad(hostName))]

\* the index of the first *HostLoad named host, 0 when there is none
FirstIndex(P, host) ==
    LET I == {i \in 1..Len(P.hosts) : P.heap[P.hosts[i]].name = host}
    IN  IF I = {} THEN 0 ELSE CHOOSE i \in I : \A j \in I : i <= j

\* the entry is overwritten by the last one and the slice is cut by one
SpliceSwapLast(q, i) ==
    IF i = Len(q) THEN SubSeq(q, 1, Len(q) - 1)
    ELSE SubSeq([q EXCEPT ![i] = q[Len(q)]], 1, Len(q) - 1)

\* append(p.hosts[:i], p.hosts[i+1:]...)
Splice(q, i) == SubSeq(q, 1, i - 1) \o SubSeq(q, i + 1, Len(q))

\* Remove that deletes the map entry and leaves hosts alone
RemoveDeleteMapOnly(P, host) ==
    Collect([P EXCEPT !.loadMap = Restrict(@, (DOMAIN @) \ {host})])

\* Remove, after its lookup found the entry
RemoveDelete(P, host) ==
    LET i == FirstIndex(P, host)
        Q == [P EXCEPT !.loadMap = Restrict(@, (DOMAIN @) \ {host}),
                       !.hosts = IF i = 0 THEN @ ELSE Splice(@, i)]
    IN  Collect(Q)

\* h.load-- without the test for a positive load
DoneLoadUnguarded(P, h) == [P EXCEPT !.heap[h].load = @ - 1]

\* a Done that forgets the decrement
DoneLoadMissing(P, h) == P

\* an Inc that counts the dispatch twice
IncLoadTwice(P, h) == [P EXCEPT !.heap[h].load = @ + 2]

\* h.load++ and the guarded h.load--
IncLoad(P, h) == [P EXCEPT !.heap[h].load = @ + 1]
DoneLoad(P, h) == [P EXCEPT !.heap[h].load = IF @ > 0 THEN @ - 1 ELSE @]

Add(P, hostName) ==
    IF hostName \in DOMAIN P.loadMap THEN P ELSE AddAppend(P, hostName)
Remove(P, host) ==
    IF host \notin DOMAIN P.loadMap THEN P ELSE RemoveDelete(P, host)
Inc(P, host) ==
    IF host \notin DOMAIN P.loadMap THEN P ELSE IncLoad(P, P.loadMap[host])
\* a Done that takes the host out of the pool
DoneEvictsHost(P, host) == Remove(P, host)

Done(P, host) ==
    IF host \notin DOMAIN P.loadMap THEN P ELSE DoneLoad(P, P.loadMap[host])

RECURSIVE AddAll(_, _)
AddAll(P, hs) == IF hs = << >> THEN P ELSE AddAll(Add(P, Head(hs)), Tail(hs))
NewP2C(hs) == AddAll(EmptyPool, hs)

\* p.hosts[i].name, i counted from 0
NameAt(P, i) == P.heap[P.hosts[i + 1]].name

\* the second index is that of the first least loaded member
hashIndexLeastLoaded(P, key) ==
    <<Mod32(ChecksumIEEE(key), Len(P.hosts)),
      (CHOOSE i \in 1..Len(P.hosts) :
          /\ \A j \in 1..Len(P.hosts) : P.heap[P.hosts[i]].load <= P.heap[P.hosts[j]].load
          /\ \A j \in 1..(i - 1) : P.heap[P.hosts[j]].load > P.heap[P.hosts[i]].load) - 1>>

\* the two indices of a non-empty key
hashIndex(P, key) ==
    <<Mod32(ChecksumIEEE(key), Len(P.hosts)),
      Mod32(ChecksumIEEE(key \o Salt), Len(P.hosts))>>

\* the candidate pairs hash can return on a non-empty pool
hash(P, key) ==
    IF Len(key) > 0
    THEN {<<NameAt(P, hashIndex(P, key)[1]), NameAt(P, hashIndex(P, key)[2])>>}
    ELSE {<<NameAt(P, i), NameAt(P, j)>> :
              i \in 0..(Len(P.hosts) - 1), j \in 0..(Len(P.hosts) - 1)}

LoadOf(P, n) == P.heap[P.loadMap[n]].load

\* the length test off by one
NoHostsOffByOne(P) == Len(P.hosts) <= 1

\* len(p.hosts) == 0
NoHosts(P) == Len(P.hosts) = 0

\* the comparison with < in place of <=
PickTieToSecond(P, n1, n2) == IF LoadOf(P, n1) < LoadOf(P, n2) THEN n1 ELSE n2

\* the comparison of Balance
Pick(P, n1, n2) == IF LoadOf(P, n1) <= LoadOf(P, n2) THEN n1 ELSE n2

\* the results Balance can return on pool P when run alone
Balance(P, key) ==
    IF NoHosts(P) THEN {NoHostError}
    ELSE {Pick(P, c[1], c[2]) : c \in hash(P, key)}

\* the names of the members of pool P, in the order of hosts
NamesOf(P) == [i \in 1..Len(P.hosts) |-> P.heap[P.hosts[i]].name]

PoolNames(P) == {P.heap[P.hosts[i]].name : i \in 1..Len(P.hosts)}


\* ------------------------------------------------------------------ state
VARIABLES
    hosts,      \* P2C.hosts: sequence of addresses of HostLoad objects
    loadMap,    \* P2C.loadMap: name -> address
    heap,       \* the HostLoad objects: address -> [name, load]
    mux,        \* P2C.mux: [w |-> holder of the write lock, r |-> read holders]
    rndIn,      \* goroutines inside a call of p.rnd.Intn
    rndTorn,    \* two calls of p.rnd.Intn have overlapped
    cl,         \* SpecP2C: the goroutines calling the balancer
    lin,        \* SpecP2C: the pool produced by the calls in lock order
    alive,      \* Proxy.alive
    req,        \* Spec: the ServeHTTP dispatches
    mon,        \* the healthCheck goroutines, one per configured host
    probeLog,   \* SpecMonitor: the probe results of each monitor
    callLog,    \* SpecMonitor: the balancer calls of each monitor
    lost,       \* history: a dispatch's count for the host has been dropped
    pmux        \* Proxy.mux: [w |-> holder of the write lock, r |-> read holders]

poolVars == <<hosts, loadMap, heap>>
p2cVars == <<mux, rndIn, rndTorn, cl, lin>>
proxyVars == <<alive, req, mon, probeLog, callLog, lost, pmux>>
vars == <<hosts, loadMap, heap, mux, rndIn, rndTorn, cl, lin,
          alive, req, mon, probeLog, callLog, lost, pmux>>

pool == [hosts |-> hosts, loadMap |-> loadMap, heap |-> heap]
SetPool(P) == hosts' = P.hosts /\ loadMap' = P.loadMap /\ heap' = P.heap

\* ------------------------------------------------- SpecP2C: direct callers
Ops == {"Add", "Remove", "Inc", "Done", "Balance"}
PanicIndex == "panic: index out of range"
PanicNil == "panic: nil pointer dereference"
PanicRand == "panic: index out of range in rand"
Panics == {PanicIndex, PanicNil, PanicRand}

\* snap records the member names hash saw for a non-empty key
IdleClient == [pc |-> "idle", op |-> None, arg |-> None,
               n |-> 0, n1 |-> None, n2 |-> None, ret |-> None, snap |-> << >>]

\* sync.RWMutex: Lock waits for the writer and all readers, RLock for the
\* writer
NoHolder == 0
\* a Lock that does not wait for the readers
CanLockIgnoringReaders == mux.w = NoHolder
CanLock == mux.w = NoHolder /\ mux.r = {}
CanRLock == mux.w = NoHolder

\* a call returns: ret is what Balance returns, and for the other methods
\* the branch they took; the deferred Unlock / RUnlock runs
Return(t, v) ==
    /\ cl' = [cl EXCEPT ![t].pc = "idle", ![t].n = 0, ![t].ret = v]
    /\ mux' = [w |-> IF mux.w = t THEN NoHolder ELSE mux.w, r |-> mux.r \ {t}]

\* a goroutine starts a call
Call(t) ==
    /\ cl[t].pc = "idle"
    /\ \E o \in Ops :
         \E a \in (IF o = "Balance" THEN Keys ELSE Names) :
            cl' = [cl EXCEPT ![t] = [IdleClient EXCEPT !.pc = "lock", !.op = o, !.arg = a]]
    /\ UNCHANGED <<poolVars, mux, rndIn, rndTorn, lin, proxyVars>>

\* p.mux.Lock() of Add, Remove, Inc and Done
Lock(t) ==
    /\ cl[t].pc = "lock" /\ cl[t].op \in {"Add", "Remove", "Inc", "Done"}
    /\ CanLock
    /\ (cl[t].op = "Inc" /\ cl[t].arg \in DOMAIN loadMap)
          => heap[loadMap[cl[t].arg]].load < MaxLoad
    /\ mux' = [mux EXCEPT !.w = t]
    /\ cl' = [cl EXCEPT ![t].pc = "body"]
    /\ UNCHANGED <<poolVars, rndIn, rndTorn, lin, proxyVars>>

\* p.mux.RLock() of Balance
RLock(t) ==
    /\ cl[t].pc = "lock" /\ cl[t].op = "Balance"
    /\ CanRLock
    /\ mux' = [mux EXCEPT !.r = @ \cup {t}]
    /\ cl' = [cl EXCEPT ![t].pc = "body"]
    /\ UNCHANGED <<poolVars, rndIn, rndTorn, lin, proxyVars>>

\* Add: the lookup in loadMap and the early return
AddCheck(t) ==
    /\ cl[t].pc = "body" /\ cl[t].op = "Add"
    /\ IF cl[t].arg \in DOMAIN loadMap
       THEN Return(t, "present")
       ELSE cl' = [cl EXCEPT ![t].pc = "write"] /\ UNCHANGED mux
    /\ UNCHANGED <<poolVars, rndIn, rndTorn, lin, proxyVars>>

\* Add: the new HostLoad is appended and entered in loadMap
AddWrite(t) ==
    /\ cl[t].pc = "write" /\ cl[t].op = "Add"
    /\ SetPool(AddAppend(pool, cl[t].arg))
    /\ lin' = Add(lin, cl[t].arg)
    /\ Return(t, "added")
    /\ UNCHANGED <<rndIn, rndTorn, proxyVars>>

\* Remove: the lookup in loadMap and the early return
RemoveCheck(t) ==
    /\ cl[t].pc = "body" /\ cl[t].op = "Remove"
    /\ IF cl[t].arg \notin DOMAIN loadMap
       THEN Return(t, "absent")
       ELSE cl' = [cl EXCEPT ![t].pc = "write"] /\ UNCHANGED mux
    /\ UNCHANGED <<poolVars, rndIn, rndTorn, lin, proxyVars>>

\* Remove: delete from loadMap, then cut the entry out of hosts
RemoveWrite(t) ==
    /\ cl[t].pc = "write" /\ cl[t].op = "Remove"
    /\ SetPool(RemoveDelete(pool, cl[t].arg))
    /\ lin' = Remove(lin, cl[t].arg)
    /\ Return(t, "removed")
    /\ UNCHANGED <<rndIn, rndTorn, proxyVars>>

\* Inc under the lock
IncBody(t) ==
    /\ cl[t].pc = "body" /\ cl[t].op = "Inc"
    /\ SetPool(Inc(pool, cl[t].arg))
    /\ lin' = Inc(lin, cl[t].arg)
    /\ Return(t, IF cl[t].arg \in DOMAIN loadMap THEN "incremented" ELSE "absent")
    /\ UNCHANGED <<rndIn, rndTorn, proxyVars>>

\* Done under the lock
DoneBody(t) ==
    /\ cl[t].pc = "body" /\ cl[t].op = "Done"
    /\ SetPool(Done(pool, cl[t].arg))
    /\ lin' = Done(lin, cl[t].arg)
    /\ Return(t, IF cl[t].arg \notin DOMAIN loadMap THEN "absent"
                  ELSE IF LoadOf(pool, cl[t].arg) > 0 THEN "decremented" ELSE "floor")
    /\ UNCHANGED <<rndIn, rndTorn, proxyVars>>

\* Balance: the length test, and hash for a non-empty key
BalanceLen(t) ==
    /\ cl[t].pc = "body" /\ cl[t].op = "Balance"
    /\ IF NoHosts(pool)
       THEN Return(t, NoHostError)
       ELSE /\ UNCHANGED mux
            /\ IF Len(cl[t].arg) > 0
               THEN cl' = [cl EXCEPT ![t].pc = "cmp",
                                     ![t].n1 = NameAt(pool, hashIndex(pool, cl[t].arg)[1]),
                                     ![t].n2 = NameAt(pool, hashIndex(pool, cl[t].arg)[2]),
                                     ![t].snap = NamesOf(pool)]
               ELSE cl' = [cl EXCEPT ![t].pc = "rnd1"]
    /\ UNCHANGED <<poolVars, rndIn, rndTorn, lin, proxyVars>>

\* hash, empty key: p.rnd.Intn(len(p.hosts)) is entered.  rand.Rand is not
\* safe for concurrent use: a call that overlaps another one races on the
\* generator's state.
BalanceRndBegin(t) ==
    /\ cl[t].pc \in {"rnd1", "rnd2"} /\ cl[t].op = "Balance"
    /\ cl' = [cl EXCEPT ![t].pc = IF @ = "rnd1" THEN "rnd1e" ELSE "rnd2e",
                        ![t].n = Len(hosts)]
    /\ rndIn' = rndIn \cup {t}
    /\ rndTorn' = (rndTorn \/ rndIn # {})
    /\ UNCHANGED <<poolVars, mux, lin, proxyVars>>

\* hash, empty key: Intn returns an index below n, or, once the generator's
\* state is torn, may index past its own table and panic; the index is then
\* used on p.hosts
BalanceRndEnd(t) ==
    /\ cl[t].pc \in {"rnd1e", "rnd2e"} /\ cl[t].op = "Balance"
    /\ rndIn' = rndIn \ {t}
    /\ \/ /\ rndTorn
          /\ Return(t, PanicRand)
       \/ \E i \in 0..(cl[t].n - 1) :
             IF i + 1 > Len(hosts)
             THEN Return(t, PanicIndex)
             ELSE /\ UNCHANGED mux
                  /\ cl' = IF cl[t].pc = "rnd1e"
                           THEN [cl EXCEPT ![t].pc = "rnd2", ![t].n1 = NameAt(pool, i)]
                           ELSE [cl EXCEPT ![t].pc = "cmp", ![t].n2 = NameAt(pool, i)]
    /\ UNCHANGED <<poolVars, rndTorn, lin, proxyVars>>

\* Balance: the loads of the two candidates are compared
BalanceCompare(t) ==
    /\ cl[t].pc = "cmp" /\ cl[t].op = "Balance"
    /\ IF cl[t].n1 \notin DOMAIN loadMap \/ cl[t].n2 \notin DOMAIN loadMap
       THEN Return(t, PanicNil)
       ELSE Return(t, Pick(pool, cl[t].n1, cl[t].n2))
    /\ UNCHANGED <<poolVars, rndIn, rndTorn, lin, proxyVars>>

\* sequences over S of length at most n
RECURSIVE SeqsUpTo(_, _)
SeqsUpTo(S, n) ==
    IF n = 0 THEN {<< >>}
    ELSE LET T == SeqsUpTo(S, n - 1)
         IN  T \cup {Append(q, x) : q \in T, x \in S}

\* the configured downstream hosts, in configuration order
targetHosts == [i \in 1..NumHosts |-> AllNames[i]]
\* a map that keeps the adapter of the first configured host alone
reverseProxyMapFirstOnly == {targetHosts[1]}

\* the keys of Proxy.reverseProxyMap
reverseProxyMap == SeqRange(targetHosts)

\* a dispatch that has no key (yet, or any more): Sprintf yields no empty key
NoKey == << >>
IdleRequest == [pc |-> "idle", key |-> NoKey, host |-> None, out |-> None,
                status |-> 0, body |-> None, incs |-> 0, dones |-> 0,
                retry |-> FALSE]

\* NewProxyRoute: every configured host is alive and has a reverse proxy
InitProxy ==
    /\ alive = [h \in Hosts |-> TRUE]
    /\ req = [r \in Requests |-> IdleRequest]
    /\ mon = [h \in Hosts |-> [pc |-> "wait", isBackendAlive |-> TRUE]]
    /\ probeLog = [h \in Hosts |-> << >>]
    /\ callLog = [h \in Hosts |-> << >>]
    /\ lost = [h \in Hosts |-> FALSE]
    /\ pmux = [w |-> NoHolder, r |-> {}]

\* NewP2C(hs) for a list hs of names, duplicates included
InitP2C ==
    /\ \E hs \in SeqsUpTo(Hosts, NumHosts) :
          /\ hosts = NewP2C(hs).hosts
          /\ loadMap = NewP2C(hs).loadMap
          /\ heap = NewP2C(hs).heap
          /\ lin = NewP2C(hs)
    /\ mux = [w |-> NoHolder, r |-> {}]
    /\ rndIn = {}
    /\ rndTorn = FALSE
    /\ cl = [t \in Clients |-> IdleClient]
    /\ InitProxy

NextP2C ==
    \E t \in Clients :
       \/ Call(t)
       \/ Lock(t)
       \/ RLock(t)
       \/ AddCheck(t)
       \/ AddWrite(t)
       \/ RemoveCheck(t)
       \/ RemoveWrite(t)
       \/ IncBody(t)
       \/ DoneBody(t)
       \/ BalanceLen(t)
       \/ BalanceRndBegin(t)
       \/ BalanceRndEnd(t)
       \/ BalanceCompare(t)

SpecP2C == InitP2C /\ [][NextP2C]_vars

\* ------------------------------------------- SpecSeq: one goroutine, no race
\* the goroutine that makes all the calls
Caller == 1

\* the caller starts Add, Remove, Inc or Done on one of its names
CallSeq(t) ==
    /\ cl[t].pc = "idle"
    /\ \E o \in Ops \ {"Balance"} :
         \E a \in SeqNames :
            cl' = [cl EXCEPT ![t] = [IdleClient EXCEPT !.pc = "lock", !.op = o, !.arg = a]]
    /\ UNCHANGED <<poolVars, mux, rndIn, rndTorn, lin, proxyVars>>

\* NewP2C(hs) for a list hs of the caller's names, duplicates included
InitSeq ==
    /\ \E hs \in SeqsUpTo(SeqNames, NumNames) :
          /\ hosts = NewP2C(hs).hosts
          /\ loadMap = NewP2C(hs).loadMap
          /\ heap = NewP2C(hs).heap
          /\ lin = NewP2C(hs)
    /\ mux = [w |-> NoHolder, r |-> {}]
    /\ rndIn = {}
    /\ rndTorn = FALSE
    /\ cl = [t \in Clients |-> IdleClient]
    /\ InitProxy

NextSeq ==
    \/ CallSeq(Caller)
    \/ Lock(Caller)
    \/ AddCheck(Caller)
    \/ AddWrite(Caller)
    \/ RemoveCheck(Caller)
    \/ RemoveWrite(Caller)
    \/ IncBody(Caller)
    \/ DoneBody(Caller)

SpecSeq == InitSeq /\ [][NextSeq]_vars


\* ------------------------------------------------- Spec: the proxy's route
StatusOK == 200
StatusInternalServerError == 500
StatusBadGateway == 502

\* the dispatches that have executed Inc(h) and not yet Done(h)
InFlight(h) == {r \in Requests : req[r].host = h /\ req[r].pc \in {"forward", "defer"}}

\* an error of Balance that is not looked at
BalanceErrorIgnored(res) == FALSE

\* err != nil after Balance
BalanceFailed(res) == res = NoHostError

\* a request reaches Proxy.ServeHTTP: the key is built from path and query
Arrive(r) ==
    /\ req[r].pc \in {"idle", "done"}
    /\ \E path \in Paths, query \in Queries :
          req' = [req EXCEPT ![r] = [IdleRequest EXCEPT
                      !.pc = "balance",
                      !.key = Sprintf(path, query),
                      !.retry = (req[r].body = "balance error")]]
    /\ UNCHANGED <<poolVars, p2cVars, pmux, alive, mon, probeLog, callLog, lost>>

\* host, err := p.bl.Balance(key); on an error 502 is written and the
\* handler returns
ServeBalance(r) ==
    /\ req[r].pc = "balance"
    /\ \E res \in Balance(pool, req[r].key) :
          IF BalanceFailed(res)
          THEN req' = [req EXCEPT ![r].pc = "done", ![r].key = NoKey,
                                  ![r].status = StatusBadGateway,
                                  ![r].body = "balance error"]
          ELSE req' = [req EXCEPT ![r].pc = "inc", ![r].key = NoKey,
                                  ![r].host = res]
    /\ UNCHANGED <<poolVars, p2cVars, pmux, alive, mon, probeLog, callLog, lost>>

\* p.bl.Inc(host); the call of Done is deferred
ServeInc(r) ==
    /\ req[r].pc = "inc"
    /\ SetPool(Inc(pool, req[r].host))
    /\ req' = [req EXCEPT ![r].pc = "forward", ![r].incs = @ + 1]
    /\ lost' = IF req[r].host \in Hosts /\ req[r].host \notin DOMAIN loadMap
               THEN [lost EXCEPT ![req[r].host] = TRUE]
               ELSE lost
    /\ UNCHANGED <<p2cVars, pmux, alive, mon, probeLog, callLog>>

\* p.reverseProxyMap[host].ServeHTTP(w, r): the downstream answers, the
\* round trip fails (ErrorHandler writes 500), or the call panics
ServeForward(r) ==
    /\ req[r].pc = "forward"
    /\ IF req[r].host \notin reverseProxyMap
       THEN req' = [req EXCEPT ![r].pc = "defer", ![r].out = "panic"]
       ELSE \/ req' = [req EXCEPT ![r].pc = "defer", ![r].out = "ok",
                                  ![r].status = StatusOK, ![r].body = "downstream"]
            \/ req' = [req EXCEPT ![r].pc = "defer", ![r].out = "error",
                                  ![r].status = StatusInternalServerError,
                                  ![r].body = "ErrorHandler error"]
            \/ req' = [req EXCEPT ![r].pc = "defer", ![r].out = "panic"]
    /\ UNCHANGED <<poolVars, p2cVars, pmux, alive, mon, probeLog, callLog, lost>>

\* a call of Done placed after the forwarding call instead of deferred
doneUnlessPanic(out) == out # "panic"

\* the deferred call runs on every way out of ServeHTTP
deferDone(out) == TRUE

\* the deferred p.bl.Done(host); a panic is then recovered by PanicsHandling,
\* which writes 502
ServeDone(r) ==
    /\ req[r].pc = "defer"
    /\ IF deferDone(req[r].out)
       THEN /\ SetPool(Done(pool, req[r].host))
            /\ req' = [req EXCEPT ![r].pc = "done", ![r].dones = @ + 1,
                          ![r].status = IF req[r].out = "panic" THEN StatusBadGateway ELSE @,
                          ![r].body = IF req[r].out = "panic" THEN "panic" ELSE @]
       ELSE /\ UNCHANGED poolVars
            /\ req' = [req EXCEPT ![r].pc = "done",
                          ![r].status = IF req[r].out = "panic" THEN StatusBadGateway ELSE @,
                          ![r].body = IF req[r].out = "panic" THEN "panic" ELSE @]
    /\ lost' = IF req[r].host \in Hosts /\ InFlight(req[r].host) = {r}
               THEN [lost EXCEPT ![req[r].host] = FALSE]
               ELSE lost
    /\ UNCHANGED <<p2cVars, pmux, alive, mon, probeLog, callLog>>

\* a SetAlive that writes the flag of every host
SetAliveEveryHost(url, v) == [u \in DOMAIN alive |-> v]

\* ReadAlive and SetAlive, under Proxy.mux
ReadAlive(url) == alive[url]
SetAlive(url, v) == [alive EXCEPT ![url] = v]

\* level-triggered: a failed probe removes the host whatever the alive flag
TransitionLevel(isBackendAlive, a) ==
    IF ~isBackendAlive THEN "set"
    ELSE IF isBackendAlive /\ ~a THEN "set"
    ELSE "wait"

\* the second condition left out: a host that is up again is not added
TransitionRemoveOnly(isBackendAlive, a) ==
    IF ~isBackendAlive /\ a THEN "set" ELSE "wait"

\* healthCheck: the two conditions on the probe result and the alive flag
Transition(isBackendAlive, a) ==
    IF ~isBackendAlive /\ a THEN "set"
    ELSE IF isBackendAlive /\ ~a THEN "set"
    ELSE "wait"

\* the probes logged or in progress, over all monitors
RECURSIVE SumLen(_, _)
SumLen(f, S) ==
    IF S = {} THEN 0
    ELSE LET x == CHOOSE y \in S : TRUE IN Len(f[x]) + SumLen(f, S \ {x})
ProbesStarted ==
    SumLen(probeLog, Hosts) + Cardinality({h \in Hosts : mon[h].pc = "probing"})

\* healthCheck: the ticker fires and util.IsBackendAlive(host) is called
HealthTick(h, log) ==
    /\ mon[h].pc = "wait"
    /\ log => ProbesStarted < MaxProbes
    /\ mon' = [mon EXCEPT ![h].pc = "probing"]
    /\ UNCHANGED <<poolVars, p2cVars, pmux, alive, req, probeLog, callLog, lost>>

\* healthCheck: the probe returns and the two conditions are evaluated
HealthProbe(h, log) ==
    /\ mon[h].pc = "probing"
    /\ \E isBackendAlive \in BOOLEAN :
          /\ mon' = [mon EXCEPT ![h].isBackendAlive = isBackendAlive,
                                ![h].pc = Transition(isBackendAlive, ReadAlive(h))]
          /\ probeLog' = IF log THEN [probeLog EXCEPT ![h] = Append(@, isBackendAlive)]
                         ELSE probeLog
    /\ UNCHANGED <<poolVars, p2cVars, pmux, alive, req, callLog, lost>>

\* healthCheck: p.SetAlive(host, false) or p.SetAlive(host, true)
HealthSetAlive(h) ==
    /\ mon[h].pc = "set"
    /\ alive' = SetAlive(h, mon[h].isBackendAlive)
    /\ mon' = [mon EXCEPT ![h].pc = "call"]
    /\ UNCHANGED <<poolVars, p2cVars, pmux, req, probeLog, callLog, lost>>

\* healthCheck: p.bl.Remove(host) after SetAlive(host, false), p.bl.Add(host)
\* after SetAlive(host, true)
HealthCall(h, log) ==
    /\ mon[h].pc = "call"
    /\ IF mon[h].isBackendAlive
       THEN /\ SetPool(Add(pool, h))
            /\ callLog' = IF log THEN [callLog EXCEPT ![h] = Append(@, "Add")] ELSE callLog
       ELSE /\ SetPool(Remove(pool, h))
            /\ callLog' = IF log THEN [callLog EXCEPT ![h] = Append(@, "Remove")] ELSE callLog
    /\ lost' = IF ~mon[h].isBackendAlive /\ InFlight(h) # {}
               THEN [lost EXCEPT ![h] = TRUE]
               ELSE lost
    /\ mon' = [mon EXCEPT ![h].pc = "wait"]
    /\ UNCHANGED <<p2cVars, pmux, alive, req, probeLog>>

\* healthCheck: the positions of a monitor, all of them inside the loop
\* "for range ticker.C", and a step of the monitor of host h
InLoop == {"wait", "probing", "set", "call"}
MonitorStep(h) ==
    \/ HealthTick(h, FALSE)
    \/ HealthProbe(h, FALSE)
    \/ HealthSetAlive(h)
    \/ HealthCall(h, FALSE)

\* ---------------------- SpecLocks: the monitors with their locks step by step
\* the monitor of host h as a holder of P2C.mux and of Proxy.mux
MonitorId(h) == NumClients + (CHOOSE i \in 1..NumHosts : AllNames[i] = h)
MonitorIds == {MonitorId(h) : h \in Hosts}

\* the holders of a sync.RWMutex
Holders(m) == m.r \cup ({m.w} \ {NoHolder})

\* a tick after which the balancer's lock is held for the whole loop body
HealthTickLocked(h) ==
    /\ mon[h].pc = "wait"
    /\ CanLock
    /\ mux' = [mux EXCEPT !.w = MonitorId(h)]
    /\ mon' = [mon EXCEPT ![h].pc = "probing"]
    /\ UNCHANGED <<poolVars, rndIn, rndTorn, cl, lin, alive, req, probeLog,
                   callLog, lost, pmux>>

\* healthCheck: the ticker fires and util.IsBackendAlive(host) is called
HealthTickFree(h) == HealthTick(h, FALSE)

\* healthCheck: the probe returns; ReadAlive is called when the first
\* condition needs it (a failed probe) or the second does (a successful one)
LockProbe(h) ==
    /\ mon[h].pc = "probing"
    /\ \E isBackendAlive \in BOOLEAN :
          mon' = [mon EXCEPT ![h].isBackendAlive = isBackendAlive, ![h].pc = "rlock"]
    /\ UNCHANGED <<poolVars, p2cVars, alive, req, probeLog, callLog, lost, pmux>>

\* ReadAlive: p.mux.RLock()
LockReadAliveRLock(h) ==
    /\ mon[h].pc = "rlock"
    /\ pmux.w = NoHolder
    /\ pmux' = [pmux EXCEPT !.r = @ \cup {MonitorId(h)}]
    /\ mon' = [mon EXCEPT ![h].pc = "read"]
    /\ UNCHANGED <<poolVars, p2cVars, alive, req, probeLog, callLog, lost>>

\* ReadAlive: p.alive[url] is read, the deferred RUnlock runs, and the two
\* conditions of healthCheck are decided
LockReadAlive(h) ==
    /\ mon[h].pc = "read"
    /\ pmux' = [pmux EXCEPT !.r = @ \ {MonitorId(h)}]
    /\ mon' = [mon EXCEPT ![h].pc = Transition(mon[h].isBackendAlive, ReadAlive(h))]
    /\ UNCHANGED <<poolVars, p2cVars, alive, req, probeLog, callLog, lost>>

\* SetAlive: p.mux.Lock()
LockSetAliveLock(h) ==
    /\ mon[h].pc = "set"
    /\ pmux.w = NoHolder /\ pmux.r = {}
    /\ pmux' = [pmux EXCEPT !.w = MonitorId(h)]
    /\ mon' = [mon EXCEPT ![h].pc = "setting"]
    /\ UNCHANGED <<poolVars, p2cVars, alive, req, probeLog, callLog, lost>>

\* SetAlive: p.alive[url] = alive, and the deferred Unlock
LockSetAlive(h) ==
    /\ mon[h].pc = "setting"
    /\ alive' = SetAlive(h, mon[h].isBackendAlive)
    /\ pmux' = [pmux EXCEPT !.w = NoHolder]
    /\ mon' = [mon EXCEPT ![h].pc = "call"]
    /\ UNCHANGED <<poolVars, p2cVars, req, probeLog, callLog, lost>>

\* p.bl.Remove(host) or p.bl.Add(host): p.mux.Lock() of the balancer
LockCallLock(h) ==
    /\ mon[h].pc = "call"
    /\ CanLock
    /\ mux' = [mux EXCEPT !.w = MonitorId(h)]
    /\ mon' = [mon EXCEPT ![h].pc = "calling"]
    /\ UNCHANGED <<poolVars, rndIn, rndTorn, cl, lin, alive, req, probeLog,
                   callLog, lost, pmux>>

\* p.bl.Remove(host) or p.bl.Add(host) under the balancer's lock, and the
\* deferred Unlock
LockCall(h) ==
    /\ mon[h].pc = "calling"
    /\ IF mon[h].isBackendAlive
       THEN SetPool(Add(pool, h)) /\ lin' = Add(lin, h)
       ELSE SetPool(Remove(pool, h)) /\ lin' = Remove(lin, h)
    /\ mux' = [mux EXCEPT !.w = NoHolder]
    /\ mon' = [mon EXCEPT ![h].pc = "wait"]
    /\ UNCHANGED <<rndIn, rndTorn, cl, alive, req, probeLog, callLog, lost, pmux>>

\* the dispatch path's calls of the balancer
CallServe(t) ==
    /\ cl[t].pc = "idle"
    /\ \E o \in {"Balance", "Inc", "Done"} :
         \E a \in (IF o = "Balance" THEN Keys ELSE Names) :
            cl' = [cl EXCEPT ![t] = [IdleClient EXCEPT !.pc = "lock", !.op = o, !.arg = a]]
    /\ UNCHANGED <<poolVars, mux, rndIn, rndTorn, lin, proxyVars>>

NextLocks ==
    \/ \E h \in Hosts :
          \/ HealthTickFree(h)
          \/ LockProbe(h)
          \/ LockReadAliveRLock(h)
          \/ LockReadAlive(h)
          \/ LockSetAliveLock(h)
          \/ LockSetAlive(h)
          \/ LockCallLock(h)
          \/ LockCall(h)
    \/ CallServe(Caller)
    \/ Lock(Caller)
    \/ RLock(Caller)
    \/ IncBody(Caller)
    \/ DoneBody(Caller)
    \/ BalanceLen(Caller)
    \/ BalanceRndBegin(Caller)
    \/ BalanceRndEnd(Caller)
    \/ BalanceCompare(Caller)

\* NewProxyRoute builds the balancer from the configured hosts
Init ==
    /\ hosts = NewP2C(targetHosts).hosts
    /\ loadMap = NewP2C(targetHosts).loadMap
    /\ heap = NewP2C(targetHosts).heap
    /\ lin = NewP2C(targetHosts)
    /\ mux = [w |-> NoHolder, r |-> {}]
    /\ rndIn = {}
    /\ rndTorn = FALSE
    /\ cl = [t \in Clients |-> IdleClient]
    /\ InitProxy

Next ==
    \/ \E r \in Requests :
          \/ Arrive(r)
          \/ ServeBalance(r)
          \/ ServeInc(r)
          \/ ServeForward(r)
          \/ ServeDone(r)
    \/ \E h \in Hosts :
          \/ HealthTick(h, FALSE)
          \/ HealthProbe(h, FALSE)
          \/ HealthSetAlive(h)
          \/ HealthCall(h, FALSE)

Spec == Init /\ [][Next]_vars

NextMonitor ==
    \E h \in Hosts :
       \/ HealthTick(h, TRUE)
       \/ HealthProbe(h, TRUE)
       \/ HealthSetAlive(h)
       \/ HealthCall(h, TRUE)

SpecMonitor == Init /\ [][NextMonitor]_vars

SpecLocks == Init /\ [][NextLocks]_vars

\* the ticker keeps firing, the probe returns and the goroutine of every
\* monitor is scheduled again and again
Fairness == \A h \in Hosts : WF_mon(MonitorStep(h))
SpecFair == Init /\ [][Next]_vars /\ Fairness


\* ------------------------------------------------ properties of the balancer
\* a step in which goroutine t returns from a call of method o
Returns(t, o) == cl[t].op = o /\ cl[t].pc # "idle" /\ cl'[t].pc = "idle"

\* C1: a Balance call that returns a host returns one that is in hosts and
\* in loadMap under its read lock, the pool does not change while a read lock
\* is held, and no Balance call indexes hosts past its end.
C1_BalanceReturnsMember ==
    /\ [](\A t \in Clients : cl[t].ret # PanicIndex)
    /\ [][\A t \in Clients :
            (Returns(t, "Balance") /\ cl'[t].ret \notin Panics \cup {NoHostError})
            => /\ t \in mux.r
               /\ cl'[t].ret \in PoolNames(pool)
               /\ cl'[t].ret \in DOMAIN loadMap]_vars
    /\ [][mux.r # {} => UNCHANGED poolVars]_vars

\* Balance has returned a host while a Remove of that very host waits for the
\* lock
C1_Witness ==
    \E t \in Clients, u \in Clients :
       /\ cl[t].op = "Balance" /\ cl[t].pc = "idle" /\ cl[t].ret \in PoolNames(pool)
       /\ cl[u].op = "Remove" /\ cl[u].pc = "lock" /\ cl[u].arg = cl[t].ret

\* the member sequence and the name map of pool P agree
Agree(P) ==
    /\ Len(P.hosts) = Cardinality(DOMAIN P.loadMap)
    /\ \A n \in DOMAIN P.loadMap :
          Cardinality({i \in 1..Len(P.hosts) : P.heap[P.hosts[i]].name = n}) = 1
    /\ \A i \in 1..Len(P.hosts) :
          /\ P.hosts[i] \in DOMAIN P.heap
          /\ P.heap[P.hosts[i]].name \in DOMAIN P.loadMap
          /\ P.loadMap[P.heap[P.hosts[i]].name] = P.hosts[i]

\* C2: after NewP2C and after every Add and Remove, hosts and loadMap have
\* the same length, every name of loadMap is the name of exactly one entry of
\* hosts, and loadMap maps the name of every entry of hosts to that entry.
C2_HostsAgreeWithLoadMap == Agree(pool)

\* a duplicate Add has returned, and a Remove has deleted a host ahead of
\* another one
C2_Witness ==
    \E t \in Clients, u \in Clients :
       /\ cl[t].op = "Add" /\ cl[t].pc = "idle" /\ cl[t].ret = "present"
       /\ cl[u].op = "Remove" /\ cl[u].pc = "idle" /\ cl[u].ret = "removed"
       /\ Len(hosts) = 1

\* C6: no call panics, no load is negative, and whenever no writer is inside
\* the balancer the pool is the one the calls produce when run one after the
\* other in the order of their lock acquisitions.
C6_Linearizable ==
    /\ \A t \in Clients : cl[t].ret \notin Panics
    /\ \A a \in DOMAIN heap : heap[a].load >= 0
    /\ Agree(pool)
    /\ mux.w = NoHolder => pool = lin

\* C7: a Balance call returns NoHostError exactly when hosts is empty at its
\* length test, whatever the key; on an empty pool it returns the error and
\* does not panic; no step of a Balance call changes the pool.
C7_NoHostIffEmpty ==
    /\ [][\A t \in Clients :
            (cl[t].op = "Balance" /\ cl[t].pc = "body" /\ cl'[t] # cl[t])
            => /\ (cl'[t].pc = "idle" /\ cl'[t].ret = NoHostError) <=> (Len(hosts) = 0)
               /\ Len(hosts) # 0 => cl'[t].pc \in {"cmp", "rnd1"}]_vars
    /\ [][\A t \in Clients :
            (Returns(t, "Balance") /\ cl'[t].ret = NoHostError)
            => cl[t].pc = "body" /\ Len(hosts) = 0 /\ DOMAIN loadMap = {}]_vars
    /\ [][\A t \in Clients :
            (cl[t].op = "Balance" /\ cl[t].pc \notin {"idle", "lock"} /\ cl'[t] # cl[t])
            => UNCHANGED poolVars]_vars

\* NoHostError has been returned for the empty key and for a non-empty key
C7_Witness ==
    \E t \in Clients, u \in Clients :
       /\ cl[t].op = "Balance" /\ cl[t].pc = "idle" /\ cl[t].ret = NoHostError
       /\ cl[t].arg = EmptyKey
       /\ cl[u].op = "Balance" /\ cl[u].pc = "idle" /\ cl[u].ret = NoHostError
       /\ cl[u].arg = KeyB

\* C9: the compare step of Balance returns the second candidate exactly when
\* its load is strictly lower than the first candidate's, so the returned
\* host has the lower load of the two; for a non-empty key the first
\* candidate is the one of the unsalted checksum.
C9_LowerLoadWins ==
    [][\A t \in Clients :
          (Returns(t, "Balance") /\ cl[t].pc = "cmp")
          => LET c1 == cl[t].n1
                 c2 == cl[t].n2
                 r == cl'[t].ret
             IN  /\ r = IF LoadOf(pool, c2) < LoadOf(pool, c1) THEN c2 ELSE c1
                 /\ LoadOf(pool, r) <= LoadOf(pool, c1)
                 /\ LoadOf(pool, r) <= LoadOf(pool, c2)
                 /\ Len(cl[t].arg) > 0 =>
                       /\ c1 = NameAt(pool, Mod32(ChecksumIEEE(cl[t].arg), Len(hosts)))
                       /\ c2 = NameAt(pool, Mod32(ChecksumIEEE(cl[t].arg \o Salt), Len(hosts)))]_vars

\* two different candidates with equal loads, the first one returned; and a
\* second candidate returned because its load is strictly lower
C9_Witness ==
    \E t \in Clients, u \in Clients :
       /\ cl[t].op = "Balance" /\ cl[t].pc = "idle" /\ cl[t].n1 # cl[t].n2
       /\ cl[t].ret = cl[t].n1 /\ cl[t].arg = KeyQ
       /\ cl[u].op = "Balance" /\ cl[u].pc = "idle" /\ cl[u].n1 # cl[u].n2
       /\ cl[u].ret = cl[u].n2 /\ cl[u].arg = KeyB
       /\ {cl[t].n1, cl[t].n2} \subseteq DOMAIN loadMap
       /\ LoadOf(pool, cl[u].n2) < LoadOf(pool, cl[u].n1)

\* C10: Inc and Done leave hosts and loadMap as they are and change no
\* HostLoad but the named one; on a name that is not in loadMap they change
\* nothing; on a present name Inc adds 1 and Done subtracts 1 only from a
\* positive load; neither panics, and no load is ever negative.
C10_IncDoneFrame ==
    /\ [](\A a \in DOMAIN heap : heap[a].load >= 0)
    /\ [][\A t \in Clients :
            (Returns(t, "Inc") \/ Returns(t, "Done"))
            => LET a == cl[t].arg
               IN  /\ hosts' = hosts /\ loadMap' = loadMap
                   /\ DOMAIN heap' = DOMAIN heap
                   /\ cl'[t].ret \notin Panics
                   /\ a \notin DOMAIN loadMap => heap' = heap
                   /\ a \in DOMAIN loadMap =>
                         /\ \A b \in DOMAIN heap :
                               b # loadMap[a] => heap'[b] = heap[b]
                         /\ heap'[loadMap[a]].name = heap[loadMap[a]].name
                         /\ heap'[loadMap[a]].load =
                               IF cl[t].op = "Inc" THEN heap[loadMap[a]].load + 1
                               ELSE IF heap[loadMap[a]].load > 0
                                    THEN heap[loadMap[a]].load - 1
                                    ELSE 0]_vars

\* Done has returned on a host that is not in the pool, and Done has returned
\* on a host whose load was 0
C10_Witness ==
    \E t \in Clients, u \in Clients :
       /\ cl[t].op = "Done" /\ cl[t].pc = "idle" /\ cl[t].ret = "absent"
       /\ cl[u].op = "Done" /\ cl[u].pc = "idle" /\ cl[u].ret = "floor"

\* C11: an Add of a name that is in the pool changes nothing, and after any
\* Add the pool has exactly one entry of that name; a Remove of a name that is
\* not in the pool changes nothing; an Add of an absent name appends one entry
\* of load 0 at the end; a Remove of a present name deletes that entry alone;
\* both keep the order and the loads of the other members.
C11_AddRemoveIdempotent ==
    [][\A t \in Clients :
          LET h == cl[t].arg
              Q == [hosts |-> hosts', loadMap |-> loadMap', heap |-> heap']
              others == (DOMAIN loadMap) \ {h}
          IN  /\ Returns(t, "Add") =>
                    /\ h \in DOMAIN loadMap => Q = pool
                    /\ h \notin DOMAIN loadMap =>
                          /\ NamesOf(Q) = Append(NamesOf(pool), h)
                          /\ LoadOf(Q, h) = 0
                    /\ Cardinality({i \in 1..Len(Q.hosts) : NamesOf(Q)[i] = h}) = 1
                    /\ DOMAIN Q.loadMap = (DOMAIN loadMap) \cup {h}
                    /\ \A g \in others : LoadOf(Q, g) = LoadOf(pool, g)
              /\ Returns(t, "Remove") =>
                    /\ h \notin DOMAIN loadMap => Q = pool
                    /\ NamesOf(Q) = SelectSeq(NamesOf(pool), LAMBDA g : g # h)
                    /\ DOMAIN Q.loadMap = others
                    /\ \A g \in others : LoadOf(Q, g) = LoadOf(pool, g)]_vars

\* a Remove has deleted the first of three members, the two others keeping
\* their order and a load of 1 and 2, and an Add has then put the removed
\* name back at the end with load 0
C11_Witness ==
    /\ cl[Caller].op = "Add" /\ cl[Caller].pc = "idle" /\ cl[Caller].ret = "added"
    /\ Len(hosts) = 3
    /\ NamesOf(pool) = <<"B", "C", "A">>
    /\ LoadOf(pool, "B") = 1 /\ LoadOf(pool, "C") = 2 /\ LoadOf(pool, "A") = 0

\* C13: the candidates of a Balance call with a non-empty key are the members
\* at the indices crc32(key) mod n and crc32(key+Salt) mod n of the member
\* sequence the call saw, so two calls with the same non-empty key that saw
\* the same member sequence have the same pair of candidates, whatever Inc,
\* Done and the random source did in between.
C13_CandidatesFromKeyAndMembers ==
    \A t \in Clients :
       (cl[t].op = "Balance" /\ Len(cl[t].arg) > 0 /\ cl[t].n1 # None) =>
          /\ Len(cl[t].snap) > 0
          /\ cl[t].n1 = cl[t].snap[Mod32(ChecksumIEEE(cl[t].arg), Len(cl[t].snap)) + 1]
          /\ cl[t].n2 = cl[t].snap[Mod32(ChecksumIEEE(cl[t].arg \o Salt), Len(cl[t].snap)) + 1]
          /\ \A u \in Clients :
                (cl[u].op = "Balance" /\ cl[u].arg = cl[t].arg /\ cl[u].n1 # None
                   /\ cl[u].snap = cl[t].snap)
                => cl[u].n1 = cl[t].n1 /\ cl[u].n2 = cl[t].n2

\* two calls with the same non-empty key on the same two members have had the
\* same two different candidates and, a load having changed in between,
\* different winners; calls of the random source have overlapped before
C13_Witness ==
    \E t \in Clients, u \in Clients :
       /\ cl[t].op = "Balance" /\ cl[t].pc = "idle" /\ cl[t].arg = KeyB
       /\ cl[u].op = "Balance" /\ cl[u].pc = "idle" /\ cl[u].arg = KeyB
       /\ Len(cl[t].snap) = 2 /\ cl[u].snap = cl[t].snap
       /\ cl[t].n1 # cl[t].n2
       /\ cl[t].ret = cl[t].n1 /\ cl[u].ret = cl[u].n2
       /\ rndTorn


\* --------------------------------------------------- properties of the proxy
\* C3: a dispatch whose Balance succeeded has called Inc once and Done not
\* yet while it forwards, and Inc once and Done once when ServeHTTP is left,
\* whether the forwarding call returned, failed or panicked; a dispatch whose
\* Balance failed has called neither.
C3_IncOnceDoneOnce ==
    \A r \in Requests :
       /\ req[r].pc \in {"idle", "balance", "inc"} => req[r].incs = 0 /\ req[r].dones = 0
       /\ req[r].pc \in {"forward", "defer"} =>
             req[r].host # None /\ req[r].incs = 1 /\ req[r].dones = 0
       /\ (req[r].pc = "done" /\ req[r].host # None) =>
             req[r].out \in {"ok", "error", "panic"} /\ req[r].incs = 1 /\ req[r].dones = 1
       /\ (req[r].pc = "done" /\ req[r].host = None) =>
             req[r].body = "balance error" /\ req[r].incs = 0 /\ req[r].dones = 0

\* a dispatch whose forwarding call panicked has left ServeHTTP with its Done
\* executed, next to one whose Balance failed
C3_Witness ==
    \E r \in Requests, q \in Requests :
       /\ req[r].pc = "done" /\ req[r].out = "panic" /\ req[r].dones = 1
       /\ req[q].pc = "done" /\ req[q].host = None

\* the balancer calls a monitor starting Alive makes for a probe sequence:
\* one per change of the probe result
RECURSIVE EdgeCalls(_, _)
EdgeCalls(q, a) ==
    IF q = << >> THEN << >>
    ELSE IF Head(q) = a THEN EdgeCalls(Tail(q), a)
    ELSE <<IF Head(q) THEN "Add" ELSE "Remove">> \o EdgeCalls(Tail(q), Head(q))

\* C4: the calls a monitor has made are one per edge of its probe sequence,
\* started from Alive: Remove on a failed probe seen while alive, Add on a
\* successful probe seen while dead, nothing otherwise; they alternate Remove,
\* Add, Remove, ...; a call is pending exactly after an edge.
C4_EdgeTriggered ==
    \A h \in Hosts :
       LET pending == mon[h].pc \in {"set", "call"}
           n == Len(probeLog[h])
           handled == IF pending THEN SubSeq(probeLog[h], 1, n - 1) ELSE probeLog[h]
       IN  /\ callLog[h] = EdgeCalls(handled, TRUE)
           /\ \A i \in 1..Len(callLog[h]) :
                 callLog[h][i] = IF i % 2 = 1 THEN "Remove" ELSE "Add"
           /\ pending =>
                 /\ n > 0
                 /\ Len(EdgeCalls(probeLog[h], TRUE)) = Len(callLog[h]) + 1
                 /\ mon[h].isBackendAlive = probeLog[h][n]
           /\ (mon[h].pc = "wait" /\ n > 0) => alive[h] = probeLog[h][n]
           /\ mon[h].pc = "wait" => (h \in DOMAIN loadMap <=> Len(callLog[h]) % 2 = 0)

\* the probes alive, alive, dead, dead, alive have produced one Remove
\* followed by one Add
C4_Witness ==
    \E h \in Hosts :
       /\ probeLog[h] = <<TRUE, TRUE, FALSE, FALSE, TRUE>>
       /\ callLog[h] = <<"Remove", "Add">>
       /\ mon[h].pc = "wait"

\* C5 as stated: the load of every host in the pool is the number of
\* dispatches between their Inc and their Done for it.
C5_LoadEqualsInFlight ==
    \A h \in DOMAIN loadMap : LoadOf(pool, h) = Cardinality(InFlight(h))

\* C5 as amended: the load of a host in the pool is the number of dispatches
\* between their Inc and their Done for it unless a count for it has been
\* dropped (the host was removed between a dispatch's Inc and Done, or an Inc
\* found it absent) and dispatches from that time are still in flight.
C5_LoadEqualsInFlightUnlessDropped ==
    \A h \in DOMAIN loadMap :
       (h \in Hosts /\ ~lost[h]) => LoadOf(pool, h) = Cardinality(InFlight(h))

\* two dispatches are in flight to one host whose load is 2 while a monitor
\* has taken another host out of the pool
C5_Witness ==
    \E h \in Hosts, g \in Hosts :
       /\ h \in DOMAIN loadMap /\ ~lost[h]
       /\ Cardinality(InFlight(h)) = 2 /\ LoadOf(pool, h) = 2
       /\ g \notin DOMAIN loadMap /\ mon[g].pc = "wait"

\* C8: when Balance fails the dispatch ends with 502 and the balancer's error
\* in the body, is not forwarded, and has called neither Inc nor Done; the
\* failing step changes nothing in the pool and happens only on an empty
\* pool; on a non-empty pool the Balance of any dispatch, one that follows a
\* failed one included, yields a host of the pool and goes on to Inc.
C8_BalanceErrorIs502 ==
    /\ [](\A r \in Requests :
            req[r].body = "balance error" =>
               /\ req[r].pc = "done" /\ req[r].status = StatusBadGateway
               /\ req[r].host = None /\ req[r].out = None
               /\ req[r].incs = 0 /\ req[r].dones = 0)
    /\ [][\A r \in Requests :
            (req[r].pc = "balance" /\ req'[r].pc # "balance") =>
               /\ UNCHANGED poolVars
               /\ Len(hosts) = 0 =>
                     /\ req'[r].pc = "done" /\ req'[r].body = "balance error"
                     /\ req'[r].status = StatusBadGateway
               /\ Len(hosts) > 0 =>
                     /\ req'[r].pc = "inc" /\ req'[r].host \in PoolNames(pool)
                     /\ req'[r].body = None]_vars

\* a dispatch that follows one answered 502 for want of a host has been
\* answered by a downstream host
C8_Witness ==
    \E r \in Requests :
       /\ req[r].retry /\ req[r].pc = "done"
       /\ req[r].status = StatusOK /\ req[r].host \in Hosts

\* C12: no step of a dispatch changes the members of the pool or their order,
\* whatever the outcome of the forwarding call; the members change only in
\* the Add or Remove of a monitor, which changes its own host alone, and a
\* host leaves the pool only after its monitor has seen a failed probe.
C12_DispatchKeepsMembership ==
    /\ [][(\E r \in Requests : req'[r].pc # req[r].pc) =>
            /\ NamesOf([hosts |-> hosts', loadMap |-> loadMap', heap |-> heap'])
                  = NamesOf(pool)
            /\ DOMAIN loadMap' = DOMAIN loadMap]_vars
    /\ [][DOMAIN loadMap' # DOMAIN loadMap =>
            \E h \in Hosts :
               /\ mon[h].pc = "call" /\ mon'[h].pc = "wait"
               /\ \A r \in Requests : req'[r].pc = req[r].pc
               /\ \A g \in Hosts \ {h} : g \in DOMAIN loadMap' <=> g \in DOMAIN loadMap
               /\ h \in DOMAIN loadMap' <=> mon[h].isBackendAlive]_vars

\* the forwarding calls of two dispatches to one host have failed, one with an
\* error and one with a panic, and the host, not probed since, is in the pool
C12_Witness ==
    \E r \in Requests, q \in Requests, h \in Hosts :
       /\ req[r].pc = "done" /\ req[r].host = h /\ req[r].out = "error"
       /\ req[q].pc = "done" /\ req[q].host = h /\ req[q].out = "panic"
       /\ h \in DOMAIN loadMap /\ alive[h] /\ mon[h].pc = "wait"

\* C17: a Balance call writes nothing that callers share: it leaves hosts,
\* loadMap and the loads as they are and never uses the random source while
\* another call is inside it, so Balance calls that run in parallel under
\* the read lock make no conflicting accesses.
C17_BalanceIsPureRead ==
    /\ Cardinality(rndIn) <= 1
    /\ ~rndTorn
    /\ mux.r # {} => pool = lin

\* C14: a started monitor can be stopped: while it waits for the next tick
\* there is a step (the stop signal) that takes it out of its loop, after
\* which it probes no more and calls neither Add nor Remove.
C14_MonitorCanBeStopped ==
    \A h \in Hosts :
       mon[h].pc = "wait" => ENABLED (MonitorStep(h) /\ mon'[h].pc \notin InLoop)

\* C15: a monitor whose probe is in progress holds neither the balancer's
\* lock nor the lock of the alive map: it holds the alive map's lock only
\* inside ReadAlive and SetAlive and the balancer's lock only inside Add and
\* Remove, all of them after the probe has returned; so while every monitor
\* that holds nothing but a probe in progress stays there, Balance, Inc, Done
\* and the other monitors find the locks as free as without it.
C15_NoLockWhileProbing ==
    \A h \in Hosts :
       /\ mon[h].pc = "probing" =>
             MonitorId(h) \notin Holders(mux) \cup Holders(pmux)
       /\ MonitorId(h) \in Holders(pmux) => mon[h].pc \in {"read", "setting"}
       /\ MonitorId(h) \in Holders(mux) => mon[h].pc = "calling" /\ mux.w = MonitorId(h)
       /\ (\A g \in Hosts : mon[g].pc = "probing") =>
             /\ pmux = [w |-> NoHolder, r |-> {}]
             /\ Holders(mux) \subseteq Clients

\* while the probes of all monitors are in progress a Balance call holds the
\* balancer's read lock, after one monitor has removed its host
C15_Witness ==
    /\ \A h \in Hosts : mon[h].pc = "probing"
    /\ cl[Caller].op = "Balance" /\ cl[Caller].pc = "cmp" /\ Caller \in mux.r
    /\ Len(hosts) = NumHosts - 1

\* the probe of the monitor of host h returns
ProbeReturns(h) == mon[h].pc = "probing" /\ mon'[h].pc # "probing"

\* C16: under fair scheduling of the monitors, if from some point on every
\* probe of host h succeeds then from some point on h is in the pool for
\* good, and if from some point on every probe of h fails then from some
\* point on h is absent from the pool for good.
C16_EventuallyConsistent ==
    \A h \in Hosts :
       /\ <>[][ProbeReturns(h) => mon'[h].isBackendAlive]_mon
             => <>[](h \in DOMAIN loadMap)
       /\ <>[][ProbeReturns(h) => ~mon'[h].isBackendAlive]_mon
             => <>[](h \notin DOMAIN loadMap)

\* a host has been removed and, its probe succeeding again, added back behind
\* the other one
C16_Witness ==
    /\ NamesOf(pool) = <<"B", "A">>
    /\ alive["A"] /\ mon["A"].pc = "wait" /\ mon["A"].isBackendAlive

\* C18: the members of the pool are configured downstream hosts, keys of
\* reverseProxyMap; every host a dispatch got from Balance is such a key, so
\* the lookup reverseProxyMap[host] of the forwarding step finds an adapter.
C18_PoolWithinReverseProxyMap ==
    /\ PoolNames(pool) \subseteq reverseProxyMap
    /\ DOMAIN loadMap \subseteq reverseProxyMap
    /\ \A r \in Requests :
          req[r].pc \in {"inc", "forward", "defer"} => req[r].host \in reverseProxyMap

\* a dispatch forwards to a host that has been removed and added back, while
\* the other host is out of the pool
C18_Witness ==
    \E r \in Requests :
       /\ req[r].pc = "forward" /\ req[r].host = "A"
       /\ NamesOf(pool) = <<"A">> /\ ~alive["B"]
       /\ \E q \in Requests : req[q].pc = "done" /\ req[q].host = "B"

\* C19: while the monitor of host h is between polls, waiting for the tick or
\* probing, or has not yet written the alive flag, alive[h] holds exactly when
\* h is in the pool; the two differ only between SetAlive and the Remove or
\* Add that follows, where alive[h] already has the new value.
C19_AliveIffInPool ==
    \A h \in Hosts :
       /\ mon[h].pc \in {"wait", "probing", "set"} =>
             /\ alive[h] <=> h \in DOMAIN loadMap
             /\ alive[h] <=> h \in PoolNames(pool)
       /\ mon[h].pc = "call" =>
             /\ alive[h] = mon[h].isBackendAlive
             /\ alive[h] <=> h \notin DOMAIN loadMap

\* a host is dead and out of the pool between two polls while the other one,
\* removed and added back, is alive and in it, a dispatch being in flight
C19_Witness ==
    /\ mon["A"].pc = "wait" /\ ~alive["A"] /\ "A" \notin DOMAIN loadMap
    /\ mon["B"].pc = "probing" /\ alive["B"] /\ NamesOf(pool) = <<"B">>
    /\ \E r \in Requests : req[r].pc = "forward" /\ req[r].host = "A"

\* C20: the load of every host in the pool is at most the number of
\* dispatches between their Inc and their Done for that host, also after the
\* host has been removed and added back while dispatches to it are in flight.
C20_LoadAtMostInFlight ==
    \A h \in DOMAIN loadMap :
       /\ LoadOf(pool, h) >= 0
       /\ LoadOf(pool, h) <= Cardinality(InFlight(h))

\* a host has been removed and added back under two dispatches in flight to
\* it, one of which made its Inc afterwards: its load is 1, below the 2 in
\* flight
C20_Witness ==
    \E h \in Hosts :
       /\ h \in DOMAIN loadMap /\ lost[h]
       /\ Cardinality(InFlight(h)) = 2 /\ LoadOf(pool, h) = 1

====
